---- MODULE Spec2Model ----
(***************************************************************************)
(* The entity/component state tracker of the firmware manager's GTK        *)
(* front end (gtk/src/state.rs): discovery handlers, the reveal cache, the *)
(* update dispatcher and the completion handler, as one state machine.     *)
(* Every public method of State is one action; the one-shot GTK timeout    *)
(* armed by device_updated is a further action.  Widgets are modelled by   *)
(* the properties the handlers read and write.                             *)
(***************************************************************************)
EXTENDS Integers, Sequences, FiniteSets, TLC

\* ------------------------------------------------------------------ bounds
MaxEntities == 2        \* entities created per run
MaxCalls == 4           \* handler calls per run

EntityIds == 1..MaxEntities
\* Version strings, as identifiers; the handlers only compare them for equality.
Versions == {1, 2}
Digests == {"d1"}

\* Option<T>: None is {}, Some(x) is {x}.
Option(S) == {{}} \cup {{x} : x \in S}
IsSome(o) == o # {}
Unwrap(o) == CHOOSE x \in o : TRUE

\* BTreeSet<FwupdRelease>, as the versions in the set's (ascending) iteration
\* order.
ReleaseSets == { <<1, 2>> }

\* A vendor changelog: (bios, description) pairs in stored order.
Changelogs ==
    { << [bios |-> 2, description |-> {"fix"}], [bios |-> 1, description |-> {}] >> }

\* FirmwareInfo { current, latest: Option }
FirmwareInfos == [current : {1}, latest : Option(Versions)]

\* FwupdSignal { info, device, upgradeable, releases }
FwupdSignals ==
    [info : {i \in FirmwareInfos : i.latest # {1}}, needs_reboot : BOOLEAN, upgradeable : BOOLEAN,
     releases : ReleaseSets]

Downloads == [digest : Digests, changelog : Changelogs]

\* ------------------------------------------------------------------- state
VARIABLES
    entities,          \* State.entities: the keys created so far
    system,            \* State.entities: the keys tagged system-level
    device_widgets,    \* Components.device_widgets
    firmware_download, \* Components.firmware_download
    latest,            \* Components.latest
    fwupd,             \* Components.fwupd
    system76,          \* Components.system76
    thelio,            \* Components.thelio
    has_battery,       \* State.has_battery
    view,              \* Widgets.stack: shown flag and visible child
    timers,            \* one-shot GTK timeouts armed and not yet fired, per entity
    discovered,        \* history: the discovery call that created each entity
    counts,            \* history: per entity, calls and events so far
    call,              \* the handler call that produced this state
    effects,           \* the outward effects of that call, in program order
    building,          \* create_device: the widget its closure has returned, until inserted
    ui_queue           \* the UI events sent on ui_sender and not yet handled

store == <<device_widgets, firmware_download, latest, fwupd, system76, thelio>>
registry == <<entities, system>>
loop == <<building, ui_queue>>
vars == <<entities, system, device_widgets, firmware_download, latest, fwupd,
          system76, thelio, has_battery, view, timers, discovered, counts,
          call, effects, building, ui_queue>>

\* SecondaryMap::insert
Insert(m, e, v) == [x \in DOMAIN m \cup {e} |-> IF x = e THEN v ELSE m[x]]

EmptyMap == [x \in {} |-> 0]

ZeroCounts ==
    [reveals |-> 0, generated |-> 0, updates |-> 0, completed |-> 0, ignored |-> 0,
     hides |-> 0]

Bump(e, field) ==
    [counts EXCEPT ![e] = [counts[e] EXCEPT ![field] = counts[e][field] + 1]]

RECURSIVE CallsOf(_)
CallsOf(S) ==
    IF S = {} THEN 0
    ELSE LET e == CHOOSE x \in S : TRUE
         IN  counts[e].reveals + counts[e].updates
             + 2 * (counts[e].completed + counts[e].ignored) + CallsOf(S \ {e})

\* Handler calls so far.  A device_updated() call counts twice, for itself and
\* for the timeout it may arm, so that an armed timeout can always fire.
Calls == Cardinality(entities) + CallsOf(EntityIds)

\* entities.is_system(entity)
is_system(e) == e \in system

\* Faulty variant: the registry keeps a single system entity.
associate_system_Single(e) == {e}

\* entities.associate_system(entity): the registry after the call.
associate_system(e) == system \cup {e}

\* The widget a DevicesView constructor returns: the button is the stack's
\* child, nothing is revealed and no callback is connected yet.
NewWidget(info, row) ==
    [row |-> row, label |-> info.current, stack_visible |-> TRUE,
     stack_child |-> "button", fraction |-> 0,
     upgrade_clicked |-> FALSE, clicked |-> FALSE,
     reveal_child |-> FALSE, child |-> {}]

Init ==
    /\ entities = {}
    /\ system = {}
    /\ device_widgets = EmptyMap
    /\ firmware_download = EmptyMap
    /\ latest = EmptyMap
    /\ fwupd = EmptyMap
    /\ system76 = EmptyMap
    /\ thelio = EmptyMap
    /\ has_battery \in BOOLEAN
    /\ view = [shown |-> FALSE, visible_child |-> "none"]
    /\ timers = [e \in EntityIds |-> 0]
    /\ discovered = EmptyMap
    /\ counts = [e \in EntityIds |-> ZeroCounts]
    /\ call = [op |-> "new", entity |-> 0]
    /\ effects = << >>
    /\ building = {}
    /\ ui_queue = << >>

\* --------------------------------------------------------- outward channels
\* The three senders of State: progress_sender, sender (to the worker) and
\* ui_sender.  A send fails when the receiving end has been dropped.
Channels == {"progress", "worker", "ui"}

\* The channel an outward effect is sent on, "none" for a direct call.
ChannelOf(ev) ==
    IF ev \in {"activate", "deactivate"} THEN "progress"
    ELSE IF ev = "request" THEN "worker"
    ELSE IF ev \in {"revealed", "hide_stack"} THEN "ui"
    ELSE "none"

\* The channels on which a send of `effs` fails, given the disconnected ones.
FailedSends(effs, failed) ==
    failed \cap {ChannelOf(effs[i].ev) : i \in 1..Len(effs)}

\* Faulty variant: the handler stops at the first send that fails.
Swallow_Abort(effs, failed) ==
    LET bad == {i \in 1..Len(effs) : ChannelOf(effs[i].ev) \in failed} IN
    IF bad = {} THEN effs
    ELSE SubSeq(effs, 1, CHOOSE i \in bad : \A j \in bad : i <= j)

\* `let _ = ....send(..)`: the Result of every send is dropped, so the handler
\* goes through all of its steps whichever sends fail.
Swallow(effs, failed) == effs

\* Has the handler reached the step `ev`?
Did(effs, ev) == \E i \in 1..Len(effs) : effs[i].ev = ev

\* ------------------------------------------------------- discovery handlers
\* Faulty variant: entities.create() hands out the newest live key again.
NextEntity_Reuse == IF entities = {} THEN Cardinality(entities) + 1 ELSE Cardinality(entities)

\* entities.create(): slot-map keys are handed out fresh; nothing is removed.
NextEntity == Cardinality(entities) + 1

\* create_device, after the closure has built the widget.
CreateDevice(e, widget) ==
    /\ entities' = entities \cup {e}
    /\ device_widgets' = Insert(device_widgets, e, widget)
    /\ view' = [shown |-> TRUE, visible_child |-> "devices"]

\* create_device up to the return of the closure: the key exists, the widget
\* does, with its callbacks connected, and is not in device_widgets yet.
CreateDeviceBegin(e, widget) ==
    /\ entities' = entities \cup {e}
    /\ building' = {[entity |-> e, widget |-> widget]}
    /\ UNCHANGED <<device_widgets, view, ui_queue>>

\* create_device from the insert on.
CreateDeviceEnd ==
    /\ building # {}
    /\ LET b == Unwrap(building) IN
       device_widgets' = Insert(device_widgets, b.entity, b.widget)
    /\ view' = [shown |-> TRUE, visible_child |-> "devices"]
    /\ building' = {}
    /\ UNCHANGED <<entities, system, firmware_download, latest, fwupd, system76,
                   thelio, has_battery, timers, discovered, counts, call, effects,
                   ui_queue>>

\* The closure of fwupd(): the widget it returns.
FwupdWidget(signal) ==
    LET w0 == NewWidget(signal.info, IF signal.needs_reboot THEN "system" ELSE "device")
        w1 == [w0 EXCEPT !.stack_visible = FALSE]
        w2 == IF IsSome(signal.info.latest) /\ signal.upgradeable
              THEN [w1 EXCEPT !.stack_visible = TRUE, !.upgrade_clicked = TRUE]
              ELSE w1
    IN  [w2 EXCEPT !.clicked = TRUE]

\* The closure of fwupd(): does it record latest and the fwupd payload?
FwupdRecords(signal) == IsSome(signal.info.latest)

\* The closure of fwupd(): does it tag the entity system-level?
FwupdSystem(signal) == signal.needs_reboot

\* The closure of fwupd(): what it writes to the registry and the store.
FwupdClosure(signal, e) ==
    /\ system' = IF FwupdSystem(signal) THEN associate_system(e) ELSE system
    /\ IF FwupdRecords(signal)
       THEN /\ latest' = Insert(latest, e, Unwrap(signal.info.latest))
            /\ fwupd' = Insert(fwupd, e,
                   [device |-> [needs_reboot |-> signal.needs_reboot],
                    releases |-> signal.releases])
       ELSE UNCHANGED <<latest, fwupd>>
    /\ discovered' = Insert(discovered, e,
          [handler |-> "fwupd", info |-> signal.info, releases |-> signal.releases])
    /\ call' = [op |-> "fwupd", entity |-> e, signal |-> signal]
    /\ effects' = << >>
    /\ UNCHANGED <<firmware_download, system76, thelio, has_battery, timers, counts>>

Fwupd(signal) ==
    LET e == NextEntity IN
    /\ e \in EntityIds
    /\ Calls < MaxCalls
    /\ FwupdClosure(signal, e)
    /\ CreateDevice(e, FwupdWidget(signal))

FwupdBegin(signal) ==
    LET e == NextEntity IN
    /\ e \in EntityIds
    /\ Calls < MaxCalls
    /\ FwupdClosure(signal, e)
    /\ CreateDeviceBegin(e, FwupdWidget(signal))

\* The closure of system76_system(): the widget it returns.
System76Widget(info) ==
    LET w0 == NewWidget(info, "system")
        w1 == [w0 EXCEPT !.stack_visible = FALSE]
        w2 == IF IsSome(info.latest) /\ Unwrap(info.latest) # info.current
              THEN [w1 EXCEPT !.stack_visible = TRUE, !.upgrade_clicked = TRUE]
              ELSE w1
    IN  [w2 EXCEPT !.clicked = TRUE]

\* Faulty variant: the downloaded payload is recorded outside the `if let Some(latest)`.
System76Records_IgnoresLatest(info, downloaded) == IsSome(downloaded)

\* The closure of system76_system(): does it record the downloaded payload?
System76Records(info, downloaded) == IsSome(info.latest) /\ IsSome(downloaded)

\* The closure of system76_system(): what it writes to the registry and the store.
System76Closure(info, downloaded, e) ==
    /\ system' = associate_system(e)
    /\ latest' = IF IsSome(info.latest)
                 THEN Insert(latest, e, Unwrap(info.latest))
                 ELSE latest
    /\ system76' = IF System76Records(info, downloaded)
                   THEN Insert(system76, e, Unwrap(downloaded))
                   ELSE system76
    /\ discovered' = Insert(discovered, e, [handler |-> "system76_system", info |-> info])
    /\ call' = [op |-> "system76_system", entity |-> e]
    /\ effects' = << >>
    /\ UNCHANGED <<firmware_download, fwupd, thelio, has_battery, timers, counts>>

System76System(info, downloaded) ==
    LET e == NextEntity IN
    /\ e \in EntityIds
    /\ Calls < MaxCalls
    /\ System76Closure(info, downloaded, e)
    /\ CreateDevice(e, System76Widget(info))

System76SystemBegin(info, downloaded) ==
    LET e == NextEntity IN
    /\ e \in EntityIds
    /\ Calls < MaxCalls
    /\ System76Closure(info, downloaded, e)
    /\ CreateDeviceBegin(e, System76Widget(info))

\* The closure of thelio_io(): does it record latest and the digest?
ThelioRecords(info, digest) == IsSome(digest) /\ IsSome(info.latest)

\* The closure of thelio_io(): the local `upgradeable`.
ThelioUpgradeable(info, digest) ==
    ThelioRecords(info, digest) /\ info.current # Unwrap(info.latest)

\* The closure of thelio_io(): the widget it returns.
ThelioWidget(info, digest) ==
    LET w0 == NewWidget(info, "device")
        w1 == IF ThelioRecords(info, digest)
              THEN [w0 EXCEPT !.upgrade_clicked = TRUE]
              ELSE w0
        w2 == [w1 EXCEPT !.clicked = TRUE]
    IN  [w2 EXCEPT !.stack_visible = ThelioUpgradeable(info, digest)]

\* The closure of thelio_io(): what it writes to the store.
ThelioClosure(info, digest, e) ==
    /\ IF ThelioRecords(info, digest)
       THEN /\ latest' = Insert(latest, e, Unwrap(info.latest))
            /\ thelio' = Insert(thelio, e, Unwrap(digest))
       ELSE UNCHANGED <<latest, thelio>>
    /\ discovered' = Insert(discovered, e, [handler |-> "thelio_io", info |-> info])
    /\ call' = [op |-> "thelio_io", entity |-> e, digest |-> digest]
    /\ effects' = << >>
    /\ UNCHANGED <<system, firmware_download, fwupd, system76, has_battery, timers, counts>>

ThelioIo(info, digest) ==
    LET e == NextEntity IN
    /\ e \in EntityIds
    /\ Calls < MaxCalls
    /\ ThelioClosure(info, digest, e)
    /\ CreateDevice(e, ThelioWidget(info, digest))

ThelioIoBegin(info, digest) ==
    LET e == NextEntity IN
    /\ e \in EntityIds
    /\ Calls < MaxCalls
    /\ ThelioClosure(info, digest, e)
    /\ CreateDeviceBegin(e, ThelioWidget(info, digest))

\* ------------------------------------------------------------ reveal cache
\* Faulty variant: the releases are listed in stored order.
Reverse_Identity(s) == s

\* Iterator::rev
Reverse(s) == [i \in 1..Len(s) |-> s[Len(s) + 1 - i]]

\* State::reveal: which of the three generator closures is handed to reveal().
RevealStrategy(e) ==
    IF e \in DOMAIN fwupd THEN "fwupd"
    ELSE IF e \in DOMAIN system76 THEN "system76"
    ELSE "none"

\* The log entries the chosen closure feeds to the changelog generator.
RevealContent(e) ==
    LET strategy == RevealStrategy(e) IN
    [generator |-> strategy,
     entries |->
        IF strategy = "fwupd"
        THEN LET rel == Reverse(fwupd[e].releases)
             IN  [i \in 1..Len(rel) |-> <<rel[i], "notes">>]
        ELSE IF strategy = "system76"
        THEN LET log == system76[e].changelog
             IN  [i \in 1..Len(log) |->
                    <<log[i].bios,
                      IF IsSome(log[i].description)
                      THEN Unwrap(log[i].description) ELSE "N/A">>]
        ELSE << >>]

\* reveal(): the value of the local `reveal`.
RevealShown(w) == ~w.reveal_child

\* Faulty variant: the content is generated whenever the changelog is about to be shown.
RevealGenerates_NoCache(w) == ~w.reveal_child

\* reveal(): is the generator closure called?
RevealGenerates(w) == ~w.reveal_child /\ w.child = {}

\* Faulty variant: Revealed carries the state read before the toggle.
RevealEffects_StaleEvent(e, gen, shown, content) ==
    (IF gen
     THEN <<[ev |-> "generate", entity |-> e, content |-> content]>>
     ELSE << >>)
    \o <<[ev |-> "revealed", entity |-> e, shown |-> ~shown],
         [ev |-> "set_reveal_child", entity |-> e, shown |-> shown]>>

\* reveal(): the outward effects, in program order.
RevealEffects(e, gen, shown, content) ==
    (IF gen
     THEN <<[ev |-> "generate", entity |-> e, content |-> content]>>
     ELSE << >>)
    \o <<[ev |-> "revealed", entity |-> e, shown |-> shown],
         [ev |-> "set_reveal_child", entity |-> e, shown |-> shown]>>

Reveal(e, failed) ==
    /\ e \in entities
    /\ Calls < MaxCalls
    /\ IF e \notin DOMAIN device_widgets
       THEN \* `device_widgets[entity]` panics on a key without a widget
            /\ effects' = <<[ev |-> "panic"]>>
            /\ call' = [op |-> "reveal", entity |-> e, failed |-> {}]
            /\ counts' = Bump(e, "reveals")
            /\ UNCHANGED device_widgets
       ELSE LET w == device_widgets[e]
                shown == RevealShown(w)
                gen == RevealGenerates(w)
                content == RevealContent(e)
                steps == RevealEffects(e, gen, shown, content)
                done == Swallow(steps, failed)
            IN  /\ device_widgets' =
                     [device_widgets EXCEPT ![e] =
                         [w EXCEPT !.reveal_child =
                                       IF Did(done, "set_reveal_child") THEN shown ELSE @,
                                   !.child = IF gen THEN {content} ELSE w.child]]
                /\ effects' = done
                /\ call' = [op |-> "reveal", entity |-> e,
                            failed |-> FailedSends(steps, failed)]
                /\ counts' =
                     [counts EXCEPT ![e] =
                         [counts[e] EXCEPT !.reveals = @ + 1,
                                           !.generated = IF gen THEN @ + 1 ELSE @]]
    /\ UNCHANGED <<entities, system, firmware_download, latest, fwupd, system76,
                   thelio, has_battery, view, timers, discovered>>

\* -------------------------------------------------------- update dispatcher
\* Faulty variant: the guard looks the entity up in the wrong map.
UpdateBranch_WrongGuard(e) ==
    IF e \notin DOMAIN device_widgets THEN "misuse"
    ELSE IF e \in DOMAIN fwupd THEN "fwupd"
    ELSE IF e \in DOMAIN system76 THEN "system76"
    ELSE IF e \in DOMAIN thelio THEN "thelio"
    ELSE "none"

\* Faulty variant: the controller branch is tested before the system-firmware branch.
UpdateBranch_ThelioFirst(e) ==
    IF e \notin DOMAIN latest THEN "misuse"
    ELSE IF e \notin DOMAIN device_widgets THEN "panic"
    ELSE IF e \in DOMAIN fwupd THEN "fwupd"
    ELSE IF e \in DOMAIN thelio THEN "thelio"
    ELSE IF e \in DOMAIN system76 THEN "system76"
    ELSE "none"

\* Faulty variant: an entity without any payload falls through to the misuse log.
UpdateBranch_NoneLogs(e) ==
    IF e \notin DOMAIN latest THEN "misuse"
    ELSE IF e \notin DOMAIN device_widgets THEN "panic"
    ELSE IF e \in DOMAIN fwupd THEN "fwupd"
    ELSE IF e \in DOMAIN system76 THEN "system76"
    ELSE IF e \in DOMAIN thelio THEN "thelio"
    ELSE "misuse"

\* State::update: the branch taken.
UpdateBranch(e) ==
    IF e \notin DOMAIN latest THEN "misuse"
    ELSE IF e \notin DOMAIN device_widgets THEN "panic"
    ELSE IF e \in DOMAIN fwupd THEN "fwupd"
    ELSE IF e \in DOMAIN system76 THEN "system76"
    ELSE IF e \in DOMAIN thelio THEN "thelio"
    ELSE "none"

\* Faulty variant: the fwupd dialog is built without the battery flag of the State.
UpdateEffects_NoBattery(e) ==
    LET branch == UpdateBranch(e) IN
    IF branch = "misuse" THEN <<[ev |-> "log"]>>
    ELSE IF branch = "panic" THEN <<[ev |-> "panic"]>>
    ELSE IF branch = "fwupd"
    THEN <<[ev |-> "dialog", kind |-> "fwupd", entity |-> e,
            device |-> fwupd[e].device, has_battery |-> FALSE,
            latest |-> latest[e], needs_reboot |-> is_system(e),
            releases |-> fwupd[e].releases]>>
    ELSE IF branch = "system76"
    THEN <<[ev |-> "dialog", kind |-> "system76", entity |-> e,
            changelog |-> system76[e].changelog, digest |-> system76[e].digest,
            has_battery |-> has_battery, latest |-> latest[e]]>>
    ELSE IF branch = "thelio"
    THEN <<[ev |-> "switch_to_waiting", entity |-> e],
           [ev |-> "activate", entity |-> e],
           [ev |-> "request", kind |-> "ThelioIo", entity |-> e,
            digest |-> thelio[e]]>>
    ELSE << >>

\* Faulty variant: the worker request is sent before the progress bar is activated.
UpdateEffects_RequestFirst(e) ==
    LET branch == UpdateBranch(e) IN
    IF branch = "misuse" THEN <<[ev |-> "log"]>>
    ELSE IF branch = "panic" THEN <<[ev |-> "panic"]>>
    ELSE IF branch = "fwupd"
    THEN <<[ev |-> "dialog", kind |-> "fwupd", entity |-> e,
            device |-> fwupd[e].device, has_battery |-> has_battery,
            latest |-> latest[e], needs_reboot |-> is_system(e),
            releases |-> fwupd[e].releases]>>
    ELSE IF branch = "system76"
    THEN <<[ev |-> "dialog", kind |-> "system76", entity |-> e,
            changelog |-> system76[e].changelog, digest |-> system76[e].digest,
            has_battery |-> has_battery, latest |-> latest[e]]>>
    ELSE IF branch = "thelio"
    THEN <<[ev |-> "request", kind |-> "ThelioIo", entity |-> e,
            digest |-> thelio[e]],
           [ev |-> "switch_to_waiting", entity |-> e],
           [ev |-> "activate", entity |-> e]>>
    ELSE << >>

\* State::update: the outward effects of the branch, in program order.
UpdateEffects(e) ==
    LET branch == UpdateBranch(e) IN
    IF branch = "misuse" THEN <<[ev |-> "log"]>>
    ELSE IF branch = "panic" THEN <<[ev |-> "panic"]>>
    ELSE IF branch = "fwupd"
    THEN <<[ev |-> "dialog", kind |-> "fwupd", entity |-> e,
            device |-> fwupd[e].device, has_battery |-> has_battery,
            latest |-> latest[e], needs_reboot |-> is_system(e),
            releases |-> fwupd[e].releases]>>
    ELSE IF branch = "system76"
    THEN <<[ev |-> "dialog", kind |-> "system76", entity |-> e,
            changelog |-> system76[e].changelog, digest |-> system76[e].digest,
            has_battery |-> has_battery, latest |-> latest[e]]>>
    ELSE IF branch = "thelio"
    THEN <<[ev |-> "switch_to_waiting", entity |-> e],
           [ev |-> "activate", entity |-> e],
           [ev |-> "request", kind |-> "ThelioIo", entity |-> e,
            digest |-> thelio[e]]>>
    ELSE << >>

Update(e, failed) ==
    /\ e \in entities
    /\ Calls < MaxCalls
    /\ effects' = Swallow(UpdateEffects(e), failed)
    /\ device_widgets' =
          IF UpdateBranch(e) = "thelio"
          THEN [device_widgets EXCEPT ![e].stack_child = "waiting"]
          ELSE device_widgets
    /\ counts' = Bump(e, "updates")
    /\ call' = [op |-> "update", entity |-> e, branch |-> UpdateBranch(e),
                failed |-> FailedSends(UpdateEffects(e), failed)]
    /\ UNCHANGED <<entities, system, firmware_download, latest, fwupd, system76,
                   thelio, has_battery, view, timers, discovered>>

\* ------------------------------------------------------- completion handler
\* Faulty variant: the progress bar is deactivated before the row is finalized.
DeviceUpdatedEffects_DeactivateFirst(e, version) ==
    IF e \in DOMAIN device_widgets
    THEN <<[ev |-> "deactivate", entity |-> e],
           [ev |-> "set_fraction", entity |-> e, percent |-> 100],
           [ev |-> "set_text", entity |-> e, text |-> version]>>
         \o (IF is_system(e) THEN <<[ev |-> "reboot"]>> ELSE << >>)
         \o <<[ev |-> "timeout_add", entity |-> e]>>
    ELSE << >>

\* Faulty variant: the reboot is requested without asking is_system.
DeviceUpdatedEffects_AlwaysReboot(e, version) ==
    IF e \in DOMAIN device_widgets
    THEN <<[ev |-> "set_fraction", entity |-> e, percent |-> 100],
           [ev |-> "set_text", entity |-> e, text |-> version],
           [ev |-> "deactivate", entity |-> e],
           [ev |-> "reboot"],
           [ev |-> "timeout_add", entity |-> e]>>
    ELSE << >>

\* State::device_updated: the outward effects, in program order.
DeviceUpdatedEffects(e, version) ==
    IF e \in DOMAIN device_widgets
    THEN <<[ev |-> "set_fraction", entity |-> e, percent |-> 100],
           [ev |-> "set_text", entity |-> e, text |-> version],
           [ev |-> "deactivate", entity |-> e]>>
         \o (IF is_system(e) THEN <<[ev |-> "reboot"]>> ELSE << >>)
         \o <<[ev |-> "timeout_add", entity |-> e]>>
    ELSE << >>

DeviceUpdated(e, version, failed) ==
    /\ Calls + 1 < MaxCalls
    /\ effects' = Swallow(DeviceUpdatedEffects(e, version), failed)
    /\ IF e \in DOMAIN device_widgets
       THEN /\ device_widgets' =
                 [device_widgets EXCEPT ![e].fraction = 100, ![e].label = version]
            /\ timers' = [timers EXCEPT ![e] =
                              IF Did(effects', "timeout_add") THEN @ + 1 ELSE @]
       ELSE UNCHANGED <<device_widgets, timers>>
    /\ counts' = Bump(e, IF e \in DOMAIN device_widgets THEN "completed" ELSE "ignored")
    /\ call' = [op |-> "device_updated", entity |-> e, version |-> version,
                widget |-> e \in DOMAIN device_widgets,
                failed |-> FailedSends(DeviceUpdatedEffects(e, version), failed)]
    /\ UNCHANGED <<entities, system, firmware_download, latest, fwupd, system76,
                   thelio, has_battery, view, discovered>>

\* Faulty variant: the closure returns Continue(true).
TimerRearms_Continue == TRUE

\* The closure given to gtk::timeout_add_seconds: it sends HideStack(entity)
\* once and returns Continue(false), so the timeout is not armed again.
TimerRearms == FALSE

TimerFire(e, failed) ==
    /\ timers[e] > 0
    /\ counts[e].hides < MaxCalls
    /\ timers' = [timers EXCEPT ![e] = IF TimerRearms THEN @ ELSE @ - 1]
    /\ effects' = Swallow(<<[ev |-> "hide_stack", entity |-> e]>>, failed)
    /\ counts' = Bump(e, "hides")
    /\ call' = [op |-> "timeout", entity |-> e, failed |-> failed \cap {"ui"}]
    /\ UNCHANGED <<entities, system, device_widgets, firmware_download, latest,
                   fwupd, system76, thelio, has_battery, view, discovered>>

\* ------------------------------------------------------------ specification
Next ==
    \/ \E signal \in FwupdSignals : Fwupd(signal) /\ UNCHANGED loop
    \/ \E info \in FirmwareInfos, downloaded \in Option(Downloads) :
          System76System(info, downloaded) /\ UNCHANGED loop
    \/ \E info \in FirmwareInfos, digest \in Option(Digests) :
          ThelioIo(info, digest) /\ UNCHANGED loop
    \/ \E e \in EntityIds : Reveal(e, {}) /\ UNCHANGED loop
    \/ \E e \in EntityIds : Update(e, {}) /\ UNCHANGED loop
    \/ \E e \in EntityIds, version \in Versions :
          DeviceUpdated(e, version, {}) /\ UNCHANGED loop
    \/ \E e \in EntityIds : TimerFire(e, {}) /\ UNCHANGED loop

Spec == Init /\ [][Next]_vars

\* The GTK main loop runs every armed timeout.
FairSpec == Spec /\ \A e \in EntityIds : WF_vars(TimerFire(e, {}) /\ UNCHANGED loop)

\* The same handlers when the receiving end of any of the channels may be gone
\* at the time of a call.
NextSend ==
    \/ \E signal \in FwupdSignals : Fwupd(signal) /\ UNCHANGED loop
    \/ \E info \in FirmwareInfos, downloaded \in Option(Downloads) :
          System76System(info, downloaded) /\ UNCHANGED loop
    \/ \E info \in FirmwareInfos, digest \in Option(Digests) :
          ThelioIo(info, digest) /\ UNCHANGED loop
    \/ \E e \in EntityIds, failed \in SUBSET {"ui"} :
          Reveal(e, failed) /\ UNCHANGED loop
    \/ \E e \in EntityIds, failed \in SUBSET {"progress", "worker"} :
          Update(e, failed) /\ UNCHANGED loop
    \/ \E e \in EntityIds, version \in Versions, failed \in SUBSET {"progress"} :
          DeviceUpdated(e, version, failed) /\ UNCHANGED loop
    \/ \E e \in EntityIds, failed \in SUBSET {"ui"} :
          TimerFire(e, failed) /\ UNCHANGED loop

SpecSend == Init /\ [][NextSend]_vars

\* ---------------------------------------------------------------- main loop
\* The handlers as the single-threaded main context runs them: create_device
\* in two steps, around the closure that connects the callbacks, and reveal()
\* and update() only for the UI events the connected callbacks have sent.

\* Faulty variant: events are handled while a handler is still running.
MainIdle_Reentrant == TRUE

\* One event at a time: no handler is running.
MainIdle == building = {}

\* Every event queued is a handler call to come.
Room(n) == Calls + Len(ui_queue) + n <= MaxCalls

\* Is the callback of this kind connected on a widget of e?  connect_clicked
\* sends Reveal(entity), connect_upgrade_clicked sends Update(entity).
Connected(e, kind) ==
    \E w \in (IF e \in DOMAIN device_widgets THEN {device_widgets[e]} ELSE {})
               \cup {b.widget : b \in {x \in building : x.entity = e}} :
        IF kind = "Reveal" THEN w.clicked ELSE w.upgrade_clicked

\* A connected callback runs: it sends its UI event on ui_sender.
Click(e, kind) ==
    /\ MainIdle
    /\ Room(1)
    /\ Connected(e, kind)
    /\ ui_queue' = Append(ui_queue, [ev |-> kind, entity |-> e])
    /\ UNCHANGED <<entities, system, device_widgets, firmware_download, latest,
                   fwupd, system76, thelio, has_battery, view, timers, discovered,
                   counts, call, effects, building>>

\* The main context takes the oldest UI event and calls its handler.
DispatchUi ==
    /\ MainIdle
    /\ ui_queue # << >>
    /\ LET event == Head(ui_queue) IN
       IF event.ev = "Reveal"
       THEN Reveal(event.entity, {})
       ELSE Update(event.entity, {})
    /\ ui_queue' = Tail(ui_queue)
    /\ UNCHANGED building

NextLoop ==
    \/ \E signal \in FwupdSignals : MainIdle /\ Room(1) /\ FwupdBegin(signal)
    \/ \E info \in FirmwareInfos, downloaded \in Option(Downloads) :
          MainIdle /\ Room(1) /\ System76SystemBegin(info, downloaded)
    \/ \E info \in FirmwareInfos, digest \in Option(Digests) :
          MainIdle /\ Room(1) /\ ThelioIoBegin(info, digest)
    \/ CreateDeviceEnd
    \/ \E e \in EntityIds, kind \in {"Reveal", "Update"} : Click(e, kind)
    \/ DispatchUi
    \/ \E e \in EntityIds, version \in Versions :
          MainIdle /\ Room(2) /\ DeviceUpdated(e, version, {}) /\ UNCHANGED loop
    \/ \E e \in EntityIds : MainIdle /\ TimerFire(e, {}) /\ UNCHANGED loop

SpecLoop == Init /\ [][NextLoop]_vars

\* A component store of any contents for one entity that already exists: the
\* maps of Components are pub(crate), so the dispatch of update() and reveal()
\* is also checked on stores that no discovery handler of state.rs builds.
StoreEntity == CHOOSE e \in EntityIds : \A x \in EntityIds : e <= x

MapsOf(S) == {EmptyMap} \cup {[x \in {StoreEntity} |-> v] : v \in S}

InitStore ==
    /\ entities = {StoreEntity}
    /\ system \in SUBSET {StoreEntity}
    /\ device_widgets =
          [x \in {StoreEntity} |->
              [NewWidget([current |-> 1], "device")
                  EXCEPT !.upgrade_clicked = TRUE, !.clicked = TRUE]]
    /\ firmware_download = EmptyMap
    /\ latest \in MapsOf({2})
    /\ fwupd \in MapsOf([device : [needs_reboot : {FALSE}], releases : ReleaseSets])
    /\ system76 \in MapsOf(Downloads)
    /\ thelio \in MapsOf(Digests)
    /\ has_battery \in BOOLEAN
    /\ view = [shown |-> TRUE, visible_child |-> "devices"]
    /\ timers = [e \in EntityIds |-> 0]
    /\ discovered =
          [x \in {StoreEntity} |->
              [handler |-> "store", info |-> [current |-> 1, latest |-> {}]]]
    /\ counts = [e \in EntityIds |-> ZeroCounts]
    /\ call = [op |-> "new", entity |-> 0]
    /\ effects = << >>
    /\ building = {}
    /\ ui_queue = << >>

SpecStore == InitStore /\ [][Next]_vars

\* ------------------------------------------------------------------ claims
\* The effects of the last call that are of the kinds in `evs`.
Emitted(evs) == {i \in 1..Len(effects) : effects[i].ev \in evs}

\* C1: update(E) on an entity without latest_version opens no dialog, sends
\* nothing to the worker or to the progress bar, only logs, and leaves the
\* component store and the entity registry as they were.
C1_MisuseIsNoOp ==
    [][\A e \in entities :
          (call'.op = "update" /\ call'.entity = e /\ e \notin DOMAIN latest)
          => /\ effects' = <<[ev |-> "log"]>>
             /\ UNCHANGED store
             /\ UNCHANGED registry]_vars

C1_Witness ==
    /\ call.op = "update"
    /\ call.entity \notin DOMAIN latest
    /\ call.entity \in DOMAIN device_widgets
    /\ effects = <<[ev |-> "log"]>>

\* C2: after a controller-only device is discovered with a digest and a latest
\* version equal to its current version, the entity is not upgradeable and
\* update(E) sends no ThelioIo request and no Activate event.
C2_EqualVersionUpdateIsNoOp ==
    \A e \in entities :
        (/\ discovered[e].handler = "thelio_io"
         /\ e \in DOMAIN thelio
         /\ discovered[e].info.latest = {discovered[e].info.current})
        => /\ ~device_widgets[e].stack_visible
           /\ (call.op = "update" /\ call.entity = e)
                 => Emitted({"request", "activate"}) = {}

\* C3: every entity the presentation layer can see has latest_version exactly
\* when it has the backend payload of its shape; none has latest_version
\* without a payload.
PayloadOf(e) ==
    IF discovered[e].handler = "fwupd" THEN fwupd
    ELSE IF discovered[e].handler = "system76_system" THEN system76
    ELSE thelio

C3_NeverHalfPopulated ==
    \A e \in DOMAIN device_widgets :
        /\ (e \in DOMAIN latest) <=> (e \in DOMAIN PayloadOf(e))
        /\ e \in DOMAIN latest
              => e \in DOMAIN fwupd \cup DOMAIN system76 \cup DOMAIN thelio

\* C4: update(E) tests the fwupd payload first, then the system-firmware
\* payload, then the controller payload, and takes one branch only; with both
\* a system-firmware and a controller payload it opens the system-firmware
\* dialog and sends no direct ThelioIo request.
Dialogs(kind) == {i \in Emitted({"dialog"}) : effects[i].kind = kind}

C4_DispatchPrecedence ==
    call.op = "update" =>
        LET e == call.entity
            f == Cardinality(Dialogs("fwupd"))
            s == Cardinality(Dialogs("system76"))
            t == Cardinality(Emitted({"request"}))
        IN  /\ f + s + t <= 1
            /\ f = 1 <=> (e \in DOMAIN latest /\ e \in DOMAIN fwupd)
            /\ s = 1 <=> (e \in DOMAIN latest /\ e \notin DOMAIN fwupd
                          /\ e \in DOMAIN system76)
            /\ t = 1 <=> (e \in DOMAIN latest /\ e \notin DOMAIN fwupd
                          /\ e \notin DOMAIN system76 /\ e \in DOMAIN thelio)

C4_Witness ==
    /\ call.op = "update"
    /\ call.entity \in DOMAIN latest
    /\ call.entity \notin DOMAIN fwupd
    /\ call.entity \in DOMAIN system76 \cap DOMAIN thelio
    /\ Cardinality(Dialogs("system76")) = 1
    /\ Emitted({"request", "activate"}) = {}

\* C5: the k-th reveal(E) reports shown = TRUE for odd k and FALSE for even k,
\* whatever happens in between; the generator runs on the first call and never
\* again, and the cached content is never replaced.
C5_Toggle ==
    /\ \A e \in EntityIds :
          counts[e].generated = (IF counts[e].reveals > 0 THEN 1 ELSE 0)
    /\ call.op = "reveal" =>
          LET k == counts[call.entity].reveals IN
          /\ \E i \in 1..Len(effects) :
                /\ effects[i] = [ev |-> "revealed", entity |-> call.entity,
                                 shown |-> (k % 2 = 1)]
                /\ Emitted({"revealed"}) = {i}
          /\ device_widgets[call.entity].reveal_child = (k % 2 = 1)
          /\ Emitted({"generate"}) # {} <=> k = 1

C5_CacheKept ==
    \A e \in DOMAIN device_widgets :
        device_widgets[e].child # {}
            => device_widgets'[e].child = device_widgets[e].child

C5_RevealToggleMemoized == []C5_Toggle /\ [][C5_CacheKept]_vars

C5_Witness ==
    /\ call.op = "reveal"
    /\ counts[call.entity].reveals = 3
    /\ counts[call.entity].generated = 1
    /\ device_widgets[call.entity].reveal_child

\* C6: device_updated(E, V) sets the progress to 100% and the label to V
\* before it deactivates the progress bar, before it asks for a reboot and
\* before the hide event can be sent.
C6_CompletionOrdering ==
    (call.op = "device_updated" /\ call.widget) =>
        /\ Len(effects) >= 2
        /\ effects[1] = [ev |-> "set_fraction", entity |-> call.entity, percent |-> 100]
        /\ effects[2] = [ev |-> "set_text", entity |-> call.entity, text |-> call.version]
        /\ \A i \in Emitted({"deactivate", "reboot", "timeout_add", "hide_stack"}) : i > 2
        /\ Emitted({"deactivate"}) # {}
        /\ device_widgets[call.entity].fraction = 100
        /\ device_widgets[call.entity].label = call.version

C6_Witness ==
    /\ call.op = "device_updated"
    /\ call.widget
    /\ Emitted({"reboot"}) # {}
    /\ device_widgets[call.entity].label # discovered[call.entity].info.current

\* C7: every device_updated(E, V) that finds E's widget arms one timeout and
\* sends no HideStack(E) itself; HideStack(E) is sent only by a timeout,
\* once per timeout, which is then gone; and the HideStack events sent catch
\* up with the completions (no entity has more of them than completions, so
\* each completion gets the HideStack of its entity).
C7_OnePerCompletion ==
    /\ \A e \in EntityIds : counts[e].hides + timers[e] = counts[e].completed
    /\ call.op = "device_updated" =>
          /\ Emitted({"hide_stack"}) = {}
          /\ Cardinality(Emitted({"timeout_add"})) = (IF call.widget THEN 1 ELSE 0)
    /\ Emitted({"hide_stack"}) # {} => call.op = "timeout"

C7_OnlyTimerHides ==
    \A e \in EntityIds :
        counts'[e].hides # counts[e].hides
            => /\ call'.op = "timeout" /\ call'.entity = e
               /\ counts'[e].hides = counts[e].hides + 1
               /\ timers'[e] = timers[e] - 1
               /\ effects' = <<[ev |-> "hide_stack", entity |-> e]>>

RECURSIVE Total(_, _)
Total(field, S) ==
    IF S = {} THEN 0
    ELSE LET e == CHOOSE x \in S : TRUE
         IN  counts[e][field] + Total(field, S \ {e})

C7_HideFollows ==
    \A n \in 1..(MaxCalls \div 2) :
        (Total("completed", EntityIds) >= n) ~> (Total("hides", EntityIds) >= n)

C7_ExactlyOneHide ==
    /\ []C7_OnePerCompletion
    /\ [][C7_OnlyTimerHides]_vars
    /\ C7_HideFollows

C7_Witness ==
    /\ call.op = "timeout"
    /\ counts[call.entity].completed = 1
    /\ counts[call.entity].hides = 1
    /\ timers[call.entity] = 0
    /\ call.entity \in system

\* C8: device_updated(E, V) asks for a reboot exactly when E is tagged
\* system-level and has a widget; no other call asks for one.
C8_RebootIffSystem ==
    /\ call.op = "device_updated" =>
          Cardinality(Emitted({"reboot"})) =
              (IF is_system(call.entity) /\ call.widget THEN 1 ELSE 0)
    /\ call.op # "device_updated" => Emitted({"reboot"}) = {}

C8_Witness ==
    /\ call.op = "device_updated"
    /\ call.widget
    /\ is_system(call.entity)
    /\ Cardinality(Emitted({"reboot"})) = 1
    /\ \E e \in entities : ~is_system(e)

\* C9: no step clears a system tag.
C9_SystemMonotonic ==
    [][\A e \in EntityIds : is_system(e) => e \in system']_vars

C9_Witness ==
    /\ call.op \in {"fwupd", "system76_system", "thelio_io"}
    /\ \E e \in system : e # call.entity

\* C10: an entity discovered from a payload without a latest version has no
\* latest_version and no backend payload, no upgrade callback and a hidden
\* upgrade button, but it has a widget with the reveal callback connected.
C10_NoLatestNotUpgradeable ==
    \A e \in entities :
        (/\ discovered[e].handler \in {"fwupd", "system76_system", "thelio_io"}
         /\ discovered[e].info.latest = {})
        => /\ e \notin DOMAIN latest
           /\ e \notin DOMAIN fwupd \cup DOMAIN system76 \cup DOMAIN thelio
           /\ e \in DOMAIN device_widgets
           /\ ~device_widgets[e].upgrade_clicked
           /\ ~device_widgets[e].stack_visible
           /\ device_widgets[e].clicked

C10_Witness ==
    /\ call.op = "system76_system"
    /\ discovered[call.entity].info.latest = {}
    /\ \E e \in entities :
          discovered[e].handler = "thelio_io" /\ discovered[e].info.latest = {}

\* C11: in every reachable state each entity has at most one backend payload:
\* it is in at most one of the fwupd, system76 and thelio maps.
PayloadShapes(e) ==
    {m \in {"fwupd", "system76", "thelio"} :
        \/ m = "fwupd" /\ e \in DOMAIN fwupd
        \/ m = "system76" /\ e \in DOMAIN system76
        \/ m = "thelio" /\ e \in DOMAIN thelio}

C11_AtMostOnePayload ==
    \A e \in EntityIds : Cardinality(PayloadShapes(e)) <= 1

C11_Witness ==
    /\ call.op \in {"reveal", "update", "device_updated", "timeout"}
    /\ \E a, b \in entities :
          /\ PayloadShapes(a) = {"fwupd"}
          /\ PayloadShapes(b) \in {{"system76"}, {"thelio"}}

\* C12: a fwupd discovery with upgradeable = true and a latest version creates
\* the entity, records that latest version with the device descriptor and the
\* release set, and connects the upgrade callback; an update(E) after it opens
\* one fwupd dialog that carries the release set received at discovery, the
\* battery flag and needs_reboot = is_system(E), and sends nothing to the
\* worker.
C12_FwupdUpgradePath ==
    /\ (/\ call.op = "fwupd"
         /\ call.signal.upgradeable
         /\ IsSome(call.signal.info.latest))
        => LET e == call.entity IN
           /\ e \in entities
           /\ e \in DOMAIN device_widgets
           /\ e \in DOMAIN latest /\ e \in DOMAIN fwupd
           /\ latest[e] = Unwrap(call.signal.info.latest)
           /\ fwupd[e] = [device |-> [needs_reboot |-> call.signal.needs_reboot],
                          releases |-> call.signal.releases]
           /\ device_widgets[e].upgrade_clicked
           /\ device_widgets[e].stack_visible
    /\ (/\ call.op = "update"
         /\ discovered[call.entity].handler = "fwupd"
         /\ device_widgets[call.entity].upgrade_clicked)
        => LET e == call.entity IN
           /\ Len(effects) = 1
           /\ effects[1].ev = "dialog"
           /\ effects[1].kind = "fwupd"
           /\ effects[1].entity = e
           /\ effects[1].releases = discovered[e].releases
           /\ effects[1].latest = Unwrap(discovered[e].info.latest)
           /\ effects[1].has_battery = has_battery
           /\ effects[1].needs_reboot = is_system(e)
           /\ Emitted({"request", "activate"}) = {}

C12_Witness ==
    /\ call.op = "update"
    /\ discovered[call.entity].handler = "fwupd"
    /\ device_widgets[call.entity].upgrade_clicked
    /\ is_system(call.entity)
    /\ has_battery
    /\ Cardinality(Dialogs("fwupd")) = 1

\* C13: every reveal(E), the first one included, sends exactly one
\* Revealed(E, s), and s is the revealer's shown state when the call returns.
C13_OneRevealedPerCall ==
    call.op = "reveal" =>
        /\ Cardinality(Emitted({"revealed"})) = 1
        /\ \A i \in Emitted({"revealed"}) :
              /\ effects[i].entity = call.entity
              /\ effects[i].shown = device_widgets[call.entity].reveal_child

C13_Witness ==
    /\ call.op = "reveal"
    /\ counts[call.entity].reveals = 1
    /\ Emitted({"generate"}) # {}
    /\ \E i \in Emitted({"revealed"}) : effects[i].shown
    /\ device_widgets[call.entity].reveal_child

\* C14: a send that fails on an outward channel is swallowed and never aborts
\* the handler: in device_updated a failed Deactivate is still followed by the
\* reboot (for a system entity) and by arming the hide timeout; in the
\* controller branch of update a failed Activate is still followed by the
\* worker request; in reveal a failed Revealed is still followed by the change
\* of the revealer; and no such failure changes the component store or the
\* entity registry.
After(first, then) ==
    \E i \in Emitted({first}) : \E j \in Emitted({then}) : i < j

C14_HandlerGoesOn ==
    /\ (call.op = "device_updated" /\ call.widget /\ "progress" \in call.failed)
          => /\ is_system(call.entity) => After("deactivate", "reboot")
             /\ After("deactivate", "timeout_add")
             /\ timers[call.entity] > 0
    /\ (call.op = "update" /\ call.branch = "thelio" /\ "progress" \in call.failed)
          => /\ After("activate", "request")
             /\ Cardinality(Emitted({"request"})) = 1
    /\ (call.op = "reveal" /\ "ui" \in call.failed)
          => /\ After("revealed", "set_reveal_child")
             /\ \A i \in Emitted({"revealed"}) :
                   device_widgets[call.entity].reveal_child = effects[i].shown

C14_FailureWritesNothing ==
    (/\ call'.op \in {"reveal", "update", "device_updated", "timeout"}
     /\ call'.failed # {})
    => /\ UNCHANGED <<firmware_download, latest, fwupd, system76, thelio>>
       /\ DOMAIN device_widgets' = DOMAIN device_widgets
       /\ UNCHANGED registry

C14_SendFailuresSwallowed ==
    []C14_HandlerGoesOn /\ [][C14_FailureWritesNothing]_vars

C14_Witness ==
    /\ call.op = "device_updated"
    /\ call.widget
    /\ call.failed = {"progress"}
    /\ is_system(call.entity)
    /\ After("deactivate", "reboot")
    /\ After("reboot", "timeout_add")
    /\ timers[call.entity] = 1

\* C15: Completed is terminal: once device_updated(E, V) has been processed,
\* a later update(E) opens no confirmation dialog and sends no request to the
\* worker.
C15_CompletedIsTerminal ==
    (call.op = "update" /\ counts[call.entity].completed > 0)
        => Emitted({"dialog", "request"}) = {}

\* C16: for an entity with latest_version and a controller payload only,
\* every update(E) opens no dialog and does three things in this order:
\* switches the row to the progress bar, sends one Activate, and sends one
\* ThelioIo(E, digest) with the digest stored for E at discovery.
C16_DigestStored ==
    (call.op = "thelio_io" /\ call.entity \in DOMAIN thelio)
        => /\ IsSome(call.digest)
           /\ thelio[call.entity] = Unwrap(call.digest)

C16_DigestKept ==
    \A e \in DOMAIN thelio : e \in DOMAIN thelio' /\ thelio'[e] = thelio[e]

C16_Sequence ==
    (/\ call.op = "update"
     /\ call.entity \in DOMAIN latest
     /\ call.entity \in DOMAIN thelio
     /\ call.entity \notin DOMAIN fwupd \cup DOMAIN system76)
    => /\ effects =
            <<[ev |-> "switch_to_waiting", entity |-> call.entity],
              [ev |-> "activate", entity |-> call.entity],
              [ev |-> "request", kind |-> "ThelioIo", entity |-> call.entity,
               digest |-> thelio[call.entity]]>>
       /\ device_widgets[call.entity].stack_child = "waiting"

C16_ControllerUpdate ==
    /\ []C16_DigestStored
    /\ [][C16_DigestKept]_vars
    /\ []C16_Sequence

C16_Witness ==
    /\ call.op = "update"
    /\ call.branch = "thelio"
    /\ counts[call.entity].updates = 2
    /\ Cardinality(Emitted({"request"})) = 1
    /\ Emitted({"dialog"}) = {}

\* C17: the first reveal(E) calls exactly one changelog generator, chosen by
\* precedence: with a fwupd payload, the release entries in the reverse of
\* their stored order; otherwise with a system-firmware payload, the changelog
\* entries in stored order; otherwise the 'no changelog' placeholder.
C17_ContentPrecedence ==
    (call.op = "reveal" /\ counts[call.entity].reveals = 1) =>
        LET e == call.entity IN
        /\ Cardinality(Emitted({"generate"})) = 1
        /\ \A i \in Emitted({"generate"}) :
              LET c == effects[i].content IN
              IF e \in DOMAIN fwupd
              THEN LET rel == fwupd[e].releases IN
                   /\ c.generator = "fwupd"
                   /\ Len(c.entries) = Len(rel)
                   /\ \A k \in 1..Len(rel) : c.entries[k][1] = rel[Len(rel) + 1 - k]
              ELSE IF e \in DOMAIN system76
              THEN LET log == system76[e].changelog IN
                   /\ c.generator = "system76"
                   /\ Len(c.entries) = Len(log)
                   /\ \A k \in 1..Len(log) :
                         /\ c.entries[k][1] = log[k].bios
                         /\ c.entries[k][2] =
                               (IF log[k].description = {} THEN "N/A"
                                ELSE Unwrap(log[k].description))
              ELSE /\ c.generator = "none"
                   /\ c.entries = << >>

C17_Witness ==
    /\ call.op = "reveal"
    /\ counts[call.entity].reveals = 1
    /\ call.entity \in DOMAIN fwupd \cap DOMAIN system76
    /\ \E i \in Emitted({"generate"}) :
          /\ effects[i].content.generator = "fwupd"
          /\ effects[i].content.entries[1][1] = 2

\* C19: for an entity with latest_version and no backend payload of any shape
\* (system firmware discovered with a latest version and no downloaded data),
\* update(E) does nothing at all: no dialog, no progress-bar event, no worker
\* request and no misuse log, also when the upgrade button is shown and its
\* callback connected.
C19_PayloadlessUpdateSilent ==
    (/\ call.op = "update"
     /\ call.entity \in DOMAIN latest
     /\ PayloadShapes(call.entity) = {})
    => /\ effects = << >>
       /\ call.branch = "none"
       /\ device_widgets[call.entity].stack_child = "button"

C19_Witness ==
    /\ call.op = "update"
    /\ call.entity \in DOMAIN latest
    /\ PayloadShapes(call.entity) = {}
    /\ discovered[call.entity].handler = "system76_system"
    /\ device_widgets[call.entity].upgrade_clicked
    /\ device_widgets[call.entity].stack_visible
    /\ effects = << >>

\* C20: reveal, update and device_updated change neither the contents of the
\* component store (latest_version, download progress, the backend payloads,
\* which entities have a widget) nor the entity registry; only the discovery
\* handlers add entities and components; no step removes or overwrites a
\* component of an existing entity, so latest_version is still there after
\* device_updated.
Kept(m, n) == \A e \in DOMAIN m : e \in DOMAIN n /\ n[e] = m[e]

C20_Step ==
    /\ call'.op \in {"reveal", "update", "device_updated", "timeout"}
          => /\ UNCHANGED <<firmware_download, latest, fwupd, system76, thelio>>
             /\ DOMAIN device_widgets' = DOMAIN device_widgets
             /\ UNCHANGED registry
    /\ Kept(firmware_download, firmware_download')
    /\ Kept(latest, latest')
    /\ Kept(fwupd, fwupd')
    /\ Kept(system76, system76')
    /\ Kept(thelio, thelio')
    /\ DOMAIN device_widgets \subseteq DOMAIN device_widgets'
    /\ entities \subseteq entities'
    /\ system \subseteq system'

C20_Frame == [][C20_Step]_vars

C20_Witness ==
    /\ call.op = "device_updated"
    /\ call.widget
    /\ call.entity \in DOMAIN latest
    /\ latest[call.entity] # call.version
    /\ device_widgets[call.entity].label = call.version
    /\ Cardinality(entities) = 2

\* C18: every Reveal(E) or Update(E) that a connected callback has sent is
\* handled when E already has its widget in device_widgets, so the unchecked
\* lookups of reveal() and update() never fail, although the callbacks are
\* connected before create_device inserts the widget: events are handled one
\* at a time.
C18_LookupsNeverFail ==
    /\ Emitted({"panic"}) = {}
    /\ call.op \in {"reveal", "update"} => call.entity \in DOMAIN device_widgets
    /\ MainIdle =>
          \A i \in 1..Len(ui_queue) : ui_queue[i].entity \in DOMAIN device_widgets

C18_Witness ==
    /\ call.op = "update"
    /\ call.branch \in {"fwupd", "system76", "thelio"}
    /\ call.entity \in DOMAIN device_widgets
    /\ Emitted({"dialog", "request"}) # {}
    /\ \E e \in entities : e # call.entity
    /\ \E i \in 1..Len(ui_queue) : ui_queue[i].ev = "Reveal"

====
